---- MODULE Spec2Model ----
(***************************************************************************)
(* Model of src/src/App.jsx: the node/edge store, the selection and the    *)
(* entity mutation handlers of the Concerto graphical editor prototype.    *)
(* One action per event handler; every handler runs to completion before   *)
(* the next event is delivered (React event handlers, functional updates). *)
(***************************************************************************)
EXTENDS Integers, Sequences, FiniteSets, TLC

VARIABLES
    nodes,              \* useNodesState: ordered node collection
    edges,              \* useEdgesState: ordered edge collection
    reactFlowInstance,  \* useState(null), set by onInit
    selectedNodeId,     \* useState(null)
    id,                 \* module-level counter `let id = 2`
    issued,             \* history: values returned by getId, in call order
    last,               \* history: the event handled last
    error,              \* history: the handler of the last event threw
    events,             \* history: number of events handled so far
    limit               \* number of events delivered in this run

vars == <<nodes, edges, reactFlowInstance, selectedNodeId, id, issued, last, error, events, limit>>

\* ---------------------------------------------------------------- bounds
MaxEvents == 4      \* events delivered in one run
MaxId     == 4      \* getId is called while id < MaxId
MaxFields == 3      \* field arrays grow up to this length
MaxEdges  == 2      \* the edge collection grows up to this length
MaxScenarioEvents == 7  \* events delivered in a run of the end-to-end scenario

\* ------------------------------------------------------------ JS values
Null        == "null"                 \* null in a string-valued position
NoInstance  == [null |-> TRUE]        \* reactFlowInstance before onInit
Undefined   == [undefined |-> TRUE]   \* undefined in an object-valued position
Hole        == [hole |-> TRUE]        \* empty slot of a sparse array

\* variant of the payload test: `type === null` instead of `!type`
Falsy_NullOnly(v) == v = Null

\* !v for a string v
Falsy(v) == v = "" \/ v = Null

\* { ...a, ...b } ; spreading undefined or a hole contributes nothing
ObjOf(v) == IF v = Undefined \/ v = Hole THEN <<>> ELSE v
Merge(a, b) ==
    [k \in (DOMAIN ObjOf(a)) \cup (DOMAIN ObjOf(b)) |->
        IF k \in DOMAIN ObjOf(b) THEN ObjOf(b)[k] ELSE ObjOf(a)[k]]

\* [...arr] : holes are read as undefined
Spread(arr) == [i \in 1..Len(arr) |-> IF arr[i] = Hole THEN Undefined ELSE arr[i]]

\* arr.filter((_, i) => i !== index) : holes are skipped, indexes are 0-based
RECURSIVE FilterNotIndex(_, _, _)
FilterNotIndex(arr, index, i) ==
    IF i > Len(arr) THEN <<>>
    ELSE IF arr[i] = Hole \/ i - 1 = index
         THEN FilterNotIndex(arr, index, i + 1)
         ELSE <<arr[i]>> \o FilterNotIndex(arr, index, i + 1)

\* arr[index] = v on a copy : writing past the end leaves holes
SetIndex(arr, index, v) ==
    [i \in 1..(IF index + 1 > Len(arr) THEN index + 1 ELSE Len(arr)) |->
        IF i = index + 1 THEN v
        ELSE IF i <= Len(arr) THEN arr[i] ELSE Hole]

\* arr[index] read : undefined past the end
GetIndex(arr, index) ==
    IF index + 1 \in 1..Len(arr) THEN (IF arr[index + 1] = Hole THEN Undefined ELSE arr[index + 1])
    ELSE Undefined

\* ------------------------------------------------------------- the code
initialNodes ==
    << [ id       |-> "1",
         type     |-> "concerto",
         position |-> [x |-> 250, y |-> 100],
         data     |-> [ label  |-> "Person",
                        fields |-> << [type |-> "String",  name |-> "firstName"],
                                      [type |-> "String",  name |-> "lastName"],
                                      [type |-> "Integer", name |-> "age"] >> ] ] >>

initialId == 2

\* variants of getId: `${id}` (no increment) and `${++id}` (pre-increment)
getId_NoIncrement(c) == [value |-> ToString(c), next |-> c]

getId_PreIncrement(c) == [value |-> ToString(c + 1), next |-> c + 1]

\* const getId = () => `${id++}` : the returned string and the counter after
getId(c) == [value |-> ToString(c), next |-> c + 1]

\* variant of find: falls back to the first node when nothing matches
selectedNodeOf_Fallback(nds, sel) ==
    IF \E i \in 1..Len(nds) : nds[i].id = sel
    THEN nds[CHOOSE i \in 1..Len(nds) : nds[i].id = sel]
    ELSE IF Len(nds) > 0 THEN nds[1] ELSE Undefined

\* nodes.find((n) => n.id === selectedNodeId)
selectedNodeOf(nds, sel) ==
    IF \E i \in 1..Len(nds) : nds[i].id = sel
    THEN nds[CHOOSE i \in 1..Len(nds) :
                /\ nds[i].id = sel
                /\ \A j \in 1..(i - 1) : nds[j].id # sel]
    ELSE Undefined

selectedNode == selectedNodeOf(nodes, selectedNodeId)

\* reactflow addEdge(params, eds): no source or target -> unchanged; an edge
\* with the same source, target and handles exists -> unchanged; else concat
getEdgeId(p) ==
    "reactflow__edge-" \o p.source \o (IF p.sourceHandle = Null THEN "" ELSE p.sourceHandle)
        \o "-" \o p.target \o (IF p.targetHandle = Null THEN "" ELSE p.targetHandle)

connectionExists(edge, eds) ==
    \E i \in 1..Len(eds) :
        /\ eds[i].source = edge.source
        /\ eds[i].target = edge.target
        /\ eds[i].sourceHandle = edge.sourceHandle
        /\ eds[i].targetHandle = edge.targetHandle

\* variant of addEdge without the existing-connection test
addEdge_NoDedup(params, eds) ==
    IF Falsy(params.source) \/ Falsy(params.target) THEN eds
    ELSE eds \o << [ id           |-> getEdgeId(params),
                     source       |-> params.source,
                     target       |-> params.target,
                     sourceHandle |-> params.sourceHandle,
                     targetHandle |-> params.targetHandle ] >>

addEdge(params, eds) ==
    IF Falsy(params.source) \/ Falsy(params.target) THEN eds
    ELSE IF connectionExists(params, eds) THEN eds
    ELSE eds \o << [ id           |-> getEdgeId(params),
                     source       |-> params.source,
                     target       |-> params.target,
                     sourceHandle |-> params.sourceHandle,
                     targetHandle |-> params.targetHandle ] >>

\* reactFlowInstance.screenToFlowPosition({x, y}) for a viewport (x, y, zoom)
screenToFlowPosition(inst, p) ==
    [x |-> (p.x - inst.x) \div inst.zoom, y |-> (p.y - inst.y) \div inst.zoom]

\* the node literal built by onDrop
newNode(nid, position, type) ==
    [ id       |-> nid,
      type     |-> "concerto",
      position |-> position,
      data     |-> [label |-> "New " \o type, fields |-> <<>>] ]

\* variants of updateNodeData: `node.id === nodeId || !nodeId`, and a map
\* that merges into every node
updateNodeData_NullMatchesAll(nds, nodeId, newData) ==
    [i \in 1..Len(nds) |->
        IF nds[i].id = nodeId \/ nodeId = Null
        THEN Merge(nds[i], [data |-> Merge(nds[i].data, newData)])
        ELSE nds[i]]

updateNodeData_EveryNode(nds, nodeId, newData) ==
    [i \in 1..Len(nds) |-> Merge(nds[i], [data |-> Merge(nds[i].data, newData)])]

\* variant of updateNodeData that rebuilds the node without `...node`
updateNodeData_NoNodeSpread(nds, nodeId, newData) ==
    [i \in 1..Len(nds) |->
        IF nds[i].id = nodeId
        THEN [id |-> nds[i].id, data |-> Merge(nds[i].data, newData)]
        ELSE nds[i]]

\* variant of updateNodeData that replaces data instead of merging into it
updateNodeData_ReplaceData(nds, nodeId, newData) ==
    [i \in 1..Len(nds) |->
        IF nds[i].id = nodeId
        THEN Merge(nds[i], [data |-> newData])
        ELSE nds[i]]

\* nds.map(node => node.id === nodeId ? {...node, data: {...node.data, ...newData}} : node)
updateNodeData(nds, nodeId, newData) ==
    [i \in 1..Len(nds) |->
        IF nds[i].id = nodeId
        THEN Merge(nds[i], [data |-> Merge(nds[i].data, newData)])
        ELSE nds[i]]

\* variants of the AddField array: one that skips the append when a field
\* named newProp exists, one that appends a field without a type
addFieldFields_SkipDuplicate(node) ==
    LET fs == Spread(IF "fields" \in DOMAIN node.data THEN node.data.fields ELSE <<>>)
    IN  IF \E j \in 1..Len(fs) : "name" \in DOMAIN ObjOf(fs[j]) /\ fs[j].name = "newProp"
        THEN fs
        ELSE fs \o << [type |-> "String", name |-> "newProp"] >>

addFieldFields_NoType(node) ==
    Spread(IF "fields" \in DOMAIN node.data THEN node.data.fields ELSE <<>>)
        \o << [name |-> "newProp"] >>

\* [...(selectedNode.data.fields || []), { type: 'String', name: 'newProp' }]
addFieldFields(node) ==
    Spread(IF "fields" \in DOMAIN node.data THEN node.data.fields ELSE <<>>)
        \o << [type |-> "String", name |-> "newProp"] >>

\* variant of the field update without `...newFields[index]`
updateFieldFields_NoFieldSpread(node, index, key, value) ==
    SetIndex(Spread(node.data.fields), index, [k \in {key} |-> value])

\* newFields = [...fields]; newFields[index] = { ...newFields[index], [key]: value }
updateFieldFields(node, index, key, value) ==
    LET copy == Spread(node.data.fields)
    IN  SetIndex(copy, index, Merge(GetIndex(copy, index), [k \in {key} |-> value]))

\* variant of the removal filter with an off-by-one index test
removeFieldFields_OffByOne(node, index) == FilterNotIndex(node.data.fields, index + 1, 1)

\* selectedNode.data.fields.filter((_, i) => i !== index)
removeFieldFields(node, index) == FilterNotIndex(node.data.fields, index, 1)

\* ------------------------------------------------------------ the inputs
DragKinds   == {"Concept", "Asset", "Enum"}       \* sidebar drag sources
TypeOptions == {"String", "Integer", "Boolean", "DateTime", "Double"}
NameInputs  == {"age"}
LabelInputs == {"Vehicle"}
FieldKeys   == {"type", "name"}
ClientPoints == {[x |-> 100, y |-> 100]}
DragPoints  == {[x |-> 0, y |-> 0]}
Viewports   == {[x |-> 20, y |-> 40, zoom |-> 2]}
Handles     == {Null, "b"}

NodeIds == {nodes[i].id : i \in 1..Len(nodes)}

\* the event record kept in `last`: the event and what it found on delivery
Handled(ev) ==
    /\ events < limit
    /\ events' = events + 1
    /\ limit' = limit
    /\ last' = Merge(ev, [selBefore    |-> selectedNodeId,
                          nodesBefore  |-> Len(nodes),
                          edgesBefore  |-> Len(edges),
                          fieldsBefore |-> IF selectedNode = Undefined THEN -1
                                           ELSE Len(selectedNode.data.fields)])

\* ------------------------------------------------------------- actions
\* onInit={setReactFlowInstance}: delivered once by the rendering collaborator
onInit(inst) ==
    /\ reactFlowInstance = NoInstance
    /\ Handled([op |-> "Init"])
    /\ reactFlowInstance' = inst
    /\ error' = FALSE
    /\ UNCHANGED <<nodes, edges, selectedNodeId, id, issued>>

\* variant of onConnect that also selects the source node
onConnect_SelectsSource(params) ==
    /\ Len(edges) < MaxEdges
    /\ Handled([op |-> "Connect", params |-> params])
    /\ edges' = addEdge(params, edges)
    /\ selectedNodeId' = params.source
    /\ error' = FALSE
    /\ UNCHANGED <<nodes, reactFlowInstance, id, issued>>

onConnect(params) ==
    /\ Len(edges) < MaxEdges
    /\ Handled([op |-> "Connect", params |-> params])
    /\ edges' = addEdge(params, edges)
    /\ error' = FALSE
    /\ UNCHANGED <<nodes, reactFlowInstance, selectedNodeId, id, issued>>

onDrop(type, client) ==
    /\ Handled([op |-> "Drop", type |-> type, client |-> client])
    /\ IF Falsy(type)
       THEN /\ error' = FALSE
            /\ UNCHANGED <<nodes, edges, reactFlowInstance, selectedNodeId, id, issued>>
       ELSE IF reactFlowInstance = NoInstance
       THEN \* null.screenToFlowPosition(...) : TypeError, before getId is called
            /\ error' = TRUE
            /\ UNCHANGED <<nodes, edges, reactFlowInstance, selectedNodeId, id, issued>>
       ELSE /\ id < MaxId
            /\ LET position == screenToFlowPosition(reactFlowInstance, client)
                   g        == getId(id)
                   n        == newNode(g.value, position, type)
               IN  /\ id' = g.next
                   /\ issued' = Append(issued, g.value)
                   /\ nodes' = nodes \o <<n>>
                   /\ selectedNodeId' = n.id
            /\ error' = FALSE
            /\ UNCHANGED <<edges, reactFlowInstance>>

\* variant of onNodeClick that selects only when nothing is selected
onNodeClick_KeepFirst(n) ==
    /\ Handled([op |-> "NodeClick", node |-> n])
    /\ selectedNodeId' = IF selectedNodeId = Null THEN n ELSE selectedNodeId
    /\ error' = FALSE
    /\ UNCHANGED <<nodes, edges, reactFlowInstance, id, issued>>

onNodeClick(n) ==
    /\ Handled([op |-> "NodeClick", node |-> n])
    /\ selectedNodeId' = n
    /\ error' = FALSE
    /\ UNCHANGED <<nodes, edges, reactFlowInstance, id, issued>>

onPaneClick ==
    /\ Handled([op |-> "PaneClick"])
    /\ selectedNodeId' = Null
    /\ error' = FALSE
    /\ UNCHANGED <<nodes, edges, reactFlowInstance, id, issued>>

onNameChange(newName) ==
    /\ Handled([op |-> "Rename", value |-> newName])
    /\ nodes' = updateNodeData(nodes, selectedNodeId, [label |-> newName])
    /\ error' = FALSE
    /\ UNCHANGED <<edges, reactFlowInstance, selectedNodeId, id, issued>>

\* variant of onAddField whose closure still holds the nodes of the first render
onAddField_StaleClosure ==
    /\ Handled([op |-> "AddField"])
    /\ LET stale == selectedNodeOf(initialNodes, selectedNodeId)
       IN  IF stale = Undefined
           THEN UNCHANGED nodes
           ELSE /\ Len(stale.data.fields) < MaxFields
                /\ nodes' = updateNodeData(nodes, selectedNodeId,
                                           [fields |-> addFieldFields(stale)])
    /\ error' = FALSE
    /\ UNCHANGED <<edges, reactFlowInstance, selectedNodeId, id, issued>>

onAddField ==
    /\ Handled([op |-> "AddField"])
    /\ IF selectedNode = Undefined
       THEN UNCHANGED nodes
       ELSE /\ Len(selectedNode.data.fields) < MaxFields
            /\ nodes' = updateNodeData(nodes, selectedNodeId,
                                       [fields |-> addFieldFields(selectedNode)])
    /\ error' = FALSE
    /\ UNCHANGED <<edges, reactFlowInstance, selectedNodeId, id, issued>>

onUpdateField(index, key, value) ==
    /\ Handled([op |-> "UpdateField", index |-> index, key |-> key, value |-> value])
    /\ IF selectedNode = Undefined
       THEN UNCHANGED nodes
       ELSE nodes' = updateNodeData(nodes, selectedNodeId,
                        [fields |-> updateFieldFields(selectedNode, index, key, value)])
    /\ error' = FALSE
    /\ UNCHANGED <<edges, reactFlowInstance, selectedNodeId, id, issued>>

onRemoveField(index) ==
    /\ Handled([op |-> "RemoveField", index |-> index])
    /\ IF selectedNode = Undefined
       THEN UNCHANGED nodes
       ELSE nodes' = updateNodeData(nodes, selectedNodeId,
                        [fields |-> removeFieldFields(selectedNode, index)])
    /\ error' = FALSE
    /\ UNCHANGED <<edges, reactFlowInstance, selectedNodeId, id, issued>>

\* onNodesChange / onEdgesChange: a node is deleted in the canvas; the
\* collaborator removes the node and the edges attached to it
RECURSIVE SelectSeqNot(_, _, _)
SelectSeqNot(s, nid, which) ==
    IF s = <<>> THEN <<>>
    ELSE LET h == Head(s)
             drop == IF which = "node" THEN h.id = nid
                     ELSE h.source = nid \/ h.target = nid
         IN  IF drop THEN SelectSeqNot(Tail(s), nid, which)
             ELSE <<h>> \o SelectSeqNot(Tail(s), nid, which)

onNodesDelete(nid) ==
    /\ Handled([op |-> "DeleteNode", node |-> nid])
    /\ nodes' = SelectSeqNot(nodes, nid, "node")
    /\ edges' = SelectSeqNot(edges, nid, "edge")
    /\ error' = FALSE
    /\ UNCHANGED <<reactFlowInstance, selectedNodeId, id, issued>>

\* onNodesChange with a position change: a node is dragged
onNodeDrag(nid, pos) ==
    /\ Handled([op |-> "DragNode", node |-> nid, position |-> pos])
    /\ \E i \in 1..Len(nodes) : nodes[i].id = nid /\ nodes[i].position # pos
    /\ nodes' = [i \in 1..Len(nodes) |->
                    IF nodes[i].id = nid THEN [nodes[i] EXCEPT !.position = pos]
                    ELSE nodes[i]]
    /\ error' = FALSE
    /\ UNCHANGED <<edges, reactFlowInstance, selectedNodeId, id, issued>>

\* ------------------------------------------------------- specification
Init ==
    /\ nodes = initialNodes
    /\ edges = <<>>
    /\ reactFlowInstance = NoInstance
    /\ selectedNodeId = Null
    /\ id = initialId
    /\ issued = <<>>
    /\ last = [op |-> "Start", selBefore |-> Null, nodesBefore |-> 0, edgesBefore |-> 0,
               fieldsBefore |-> -1]
    /\ error = FALSE
    /\ events = 0
    /\ limit = MaxEvents

Next ==
    \/ \E inst \in Viewports : onInit(inst)
    \/ \E s \in NodeIds, t \in NodeIds, sh \in Handles, th \in Handles :
          onConnect([source |-> s, target |-> t, sourceHandle |-> sh, targetHandle |-> th])
    \/ \E type \in DragKinds \cup {""}, c \in ClientPoints : onDrop(type, c)
    \/ \E n \in NodeIds : onNodeClick(n)
    \/ onPaneClick
    \/ \E v \in LabelInputs : onNameChange(v)
    \/ onAddField
    \/ \E i \in 0..(MaxFields - 1), k \in FieldKeys :
          \E v \in (IF k = "type" THEN TypeOptions ELSE NameInputs) : onUpdateField(i, k, v)
    \/ \E i \in 0..(MaxFields - 1) : onRemoveField(i)
    \/ \E n \in NodeIds : onNodesDelete(n)
    \/ \E n \in NodeIds, p \in DragPoints : onNodeDrag(n, p)

Spec == Init /\ [][Next]_vars

\* The events the properties panel can deliver for field rows: a row is
\* rendered for every element of the selected node's fields, and its select,
\* input and button pass that row's index.
ShownIndexes ==
    IF selectedNode = Undefined THEN {}
    ELSE {j - 1 : j \in {k \in 1..Len(selectedNode.data.fields) :
                            selectedNode.data.fields[k] # Hole}}

NextShown ==
    \/ \E inst \in Viewports : onInit(inst)
    \/ \E s \in NodeIds, t \in NodeIds, sh \in Handles, th \in Handles :
          onConnect([source |-> s, target |-> t, sourceHandle |-> sh, targetHandle |-> th])
    \/ \E type \in DragKinds \cup {""}, c \in ClientPoints : onDrop(type, c)
    \/ \E n \in NodeIds : onNodeClick(n)
    \/ onPaneClick
    \/ \E v \in LabelInputs : onNameChange(v)
    \/ onAddField
    \/ \E i \in ShownIndexes, k \in FieldKeys :
          \E v \in (IF k = "type" THEN TypeOptions ELSE NameInputs) : onUpdateField(i, k, v)
    \/ \E i \in ShownIndexes : onRemoveField(i)
    \/ \E n \in NodeIds : onNodesDelete(n)
    \/ \E n \in NodeIds, p \in DragPoints : onNodeDrag(n, p)

SpecShown == Init /\ [][NextShown]_vars

\* The end-to-end run: the canvas is initialised (onInit was delivered), the
\* user drags "Concept" from the sidebar and edits the first field row.
ScenarioInit ==
    /\ nodes = initialNodes
    /\ edges = <<>>
    /\ reactFlowInstance \in Viewports
    /\ selectedNodeId = Null
    /\ id = initialId
    /\ issued = <<>>
    /\ last = [op |-> "Start", selBefore |-> Null, nodesBefore |-> 0, edgesBefore |-> 0,
               fieldsBefore |-> -1]
    /\ error = FALSE
    /\ events = 0
    /\ limit = MaxScenarioEvents

ScenarioNext ==
    \/ \E c \in ClientPoints : onDrop("Concept", c)
    \/ onPaneClick
    \/ onAddField
    \/ onUpdateField(0, "name", "age")
    \/ onUpdateField(0, "type", "Integer")
    \/ onRemoveField(0)

SpecScenario == ScenarioInit /\ [][ScenarioNext]_vars

\* ------------------------------------------------------------ properties
MutationOps == {"Rename", "AddField", "UpdateField", "RemoveField"}

Range(s) == {s[i] : i \in 1..Len(s)}

\* the integer a decimal string stands for
IntOf(s) == CHOOSE n \in 0..(MaxId + MaxEvents + 1) : ToString(n) = s

\* C1: in every reachable state the ids of the nodes in the node collection
\* are pairwise distinct.
C1_UniqueNodeIds ==
    \A i, j \in 1..Len(nodes) : i # j => nodes[i].id # nodes[j].id

C1_Witness ==
    /\ Len(nodes) >= 3
    /\ last.op = "Drop"

\* C2: getId returns "2", "3", ... in call order: the k-th id issued is k+1
\* as a string, ids are strictly increasing as integers, none equals the seed
\* id "1", every created node carries the id issued for it, and a drop never
\* gives a new node an id issued before, also after nodes were deleted.
C2_StateOk ==
    /\ \A k \in 1..Len(issued) : issued[k] = ToString(k + 1) /\ issued[k] # "1"
    /\ \A i, j \in 1..Len(issued) : i < j => IntOf(issued[i]) < IntOf(issued[j])
    /\ \A i \in 1..Len(nodes) : nodes[i].id = "1" \/ nodes[i].id \in Range(issued)

C2_StepOk ==
    (last'.op = "Drop" /\ Len(nodes') > Len(nodes)) =>
        /\ Len(issued') = Len(issued) + 1
        /\ nodes'[Len(nodes')].id = issued'[Len(issued')]
        /\ nodes'[Len(nodes')].id = ToString(Len(issued') + 1)
        /\ nodes'[Len(nodes')].id \notin Range(issued) \cup {"1"}

C2_FreshIncreasingIds == []C2_StateOk /\ [][C2_StepOk]_vars

\* a drop after the node with the latest id was deleted
C2_Witness ==
    /\ last.op = "Drop"
    /\ Len(issued) = 2
    /\ issued[1] \notin NodeIds
    /\ issued[2] \in NodeIds

\* C3: Rename, AddField, UpdateField and RemoveField handled while nothing is
\* selected (selectedNodeId is null) leave the node collection and the edge
\* collection exactly as they were.
C3_NoSelectionNoOp ==
    [][ (selectedNodeId = Null /\ last'.op \in MutationOps)
            => (nodes' = nodes /\ edges' = edges) ]_vars

C3_Witness ==
    /\ last.op = "Rename"
    /\ selectedNodeId = Null
    /\ Len(nodes) >= 2

\* C4: a Rename, AddField, UpdateField or RemoveField handled while node x is
\* selected keeps the number and order of nodes, leaves every node whose id
\* differs from x equal to its value before, and changes at most one node.
C4_StepOk ==
    (last'.op \in MutationOps) =>
        /\ Len(nodes') = Len(nodes)
        /\ \A i \in 1..Len(nodes) : nodes'[i].id = nodes[i].id
        /\ \A i \in 1..Len(nodes) : nodes[i].id # selectedNodeId => nodes'[i] = nodes[i]
        /\ Cardinality({i \in 1..Len(nodes) : nodes'[i] # nodes[i]}) <= 1

C4_Isolation == [][C4_StepOk]_vars

\* the selected node got a field while another node is in the collection
C4_Witness ==
    /\ last.op = "AddField"
    /\ Len(nodes) >= 2
    /\ selectedNodeId = "2"
    /\ selectedNode # Undefined
    /\ Len(selectedNode.data.fields) = 1

\* C5: when selectedNodeId names no node of the collection the resolved
\* selected node is absent, and the four mutation handlers then leave nodes
\* and edges unchanged and raise nothing; a resolved selected node is always
\* the node of the collection whose id is selectedNodeId.
C5_StateOk ==
    /\ selectedNodeId \notin NodeIds => selectedNode = Undefined
    /\ selectedNode # Undefined =>
          /\ selectedNode.id = selectedNodeId
          /\ selectedNode \in Range(nodes)

C5_StepOk ==
    (selectedNodeId # Null /\ selectedNodeId \notin NodeIds /\ last'.op \in MutationOps)
        => (nodes' = nodes /\ edges' = edges /\ error' = FALSE)

C5_StaleSelection == []C5_StateOk /\ [][C5_StepOk]_vars

C5_Witness ==
    /\ last.op \in MutationOps
    /\ selectedNodeId # Null
    /\ selectedNodeId \notin NodeIds
    /\ Len(nodes) >= 1

\* C6: a drop carrying a non-empty drag payload appends exactly one node at
\* the end of the node collection, with a fresh id, kind "concerto", label
\* "New <kind>", no fields and the dropped position, keeps every earlier node
\* as it was, and leaves the new node selected.
C6_StepOk ==
    (last'.op = "Drop" /\ last'.type # "") =>
        /\ Len(nodes') = Len(nodes) + 1
        /\ SubSeq(nodes', 1, Len(nodes)) = nodes
        /\ LET n == nodes'[Len(nodes')]
           IN  /\ n.id \notin NodeIds \cup Range(issued)
               /\ n.id = issued'[Len(issued')]
               /\ n.type = "concerto"
               /\ n.data = [label |-> "New " \o last'.type, fields |-> <<>>]
               /\ n.position = screenToFlowPosition(reactFlowInstance, last'.client)
               /\ selectedNodeId' = n.id

C6_DropAppendsAndSelects == [][C6_StepOk]_vars

\* C7: the selection starts as null and changes only on a node click (to the
\* clicked node, whatever was selected), a pane click (to null) and a drop
\* that created a node (to the new node); a click on B after A selects B.
C7_StepOk ==
    /\ selectedNodeId' # selectedNodeId => last'.op \in {"NodeClick", "PaneClick", "Drop"}
    /\ last'.op = "NodeClick" => selectedNodeId' = last'.node
    /\ last'.op = "PaneClick" => selectedNodeId' = Null
    /\ last'.op = "Drop" =>
          IF Len(nodes') > Len(nodes)
          THEN selectedNodeId' = nodes'[Len(nodes')].id
          ELSE selectedNodeId' = selectedNodeId

C7_SelectionTransitions == (selectedNodeId = Null) /\ [][C7_StepOk]_vars

\* node B clicked while another node A was selected
C7_Witness ==
    /\ last.op = "NodeClick"
    /\ last.selBefore \notin {Null, last.node}
    /\ selectedNodeId = last.node

\* C8: no event handler raises an error in any reachable state, also before
\* onInit has delivered the flow instance.
C8_NoHandlerThrows == error = FALSE

\* C9 (as stated): every connect event lengthens the edge collection by one
\* and keeps the earlier edges, also when an equal connection exists.
C9_Original_StepOk ==
    last'.op = "Connect" =>
        /\ Len(edges') = Len(edges) + 1
        /\ SubSeq(edges', 1, Len(edges)) = edges

C9_StepOk ==
    last'.op = "Connect" =>
        LET p == last'.params
            same(e) == /\ e.source = p.source
                       /\ e.target = p.target
                       /\ e.sourceHandle = p.sourceHandle
                       /\ e.targetHandle = p.targetHandle
        IN  IF \E e \in Range(edges) : same(e)
            THEN edges' = edges
            ELSE /\ Len(edges') = Len(edges) + 1
                 /\ SubSeq(edges', 1, Len(edges)) = edges
                 /\ same(edges'[Len(edges')])

C10_StepOk ==
    (last'.op = "Drop" /\ last'.type = "") =>
        /\ UNCHANGED <<nodes, edges, selectedNodeId, id, issued, reactFlowInstance>>
        /\ error' = FALSE

C10_EmptyDropIgnored == [][C10_StepOk]_vars

\* an empty drop was delivered after onInit, with a node selected
C10_Witness ==
    /\ last.op = "Drop"
    /\ last.type = ""
    /\ reactFlowInstance # NoInstance
    /\ selectedNodeId # Null

\* the field array of the selected node, and whether it has an empty slot
SelFields == selectedNode.data.fields

HasHole(fs) == \E j \in 1..Len(fs) : fs[j] = Hole

\* fs with the element at 0-based index i taken out
WithoutIndex(fs, i) ==
    [j \in 1..(Len(fs) - 1) |-> IF j <= i THEN fs[j] ELSE fs[j + 1]]

\* C11 (as stated): RemoveField(i) on the selected node whose field array has
\* length n, 0 <= i < n, yields the array of length n-1 that is the original
\* with the element at index i deleted and nothing else altered.
C11_Original_StepOk ==
    (/\ last'.op = "RemoveField"
     /\ selectedNode # Undefined
     /\ last'.index < Len(SelFields))
        => /\ selectedNode' # Undefined
           /\ Len(SelFields') = Len(SelFields) - 1
           /\ SelFields' = WithoutIndex(SelFields, last'.index)

C11_StepOk ==
    (/\ last'.op = "RemoveField"
     /\ selectedNode # Undefined
     /\ ~HasHole(SelFields)
     /\ last'.index < Len(SelFields))
        => /\ selectedNode' # Undefined
           /\ Len(SelFields') = Len(SelFields) - 1
           /\ SelFields' = WithoutIndex(SelFields, last'.index)

C12_StateOk ==
    \A i \in 1..Len(nodes) :
        /\ {"id", "type"} \subseteq DOMAIN nodes[i]
        /\ nodes[i].type = "concerto"
        /\ nodes[i].id \in {"1"} \cup Range(issued)

C12_StepOk ==
    (last'.op \in MutationOps) =>
        /\ Len(nodes') = Len(nodes)
        /\ \A i \in 1..Len(nodes) :
              /\ {"id", "type"} \subseteq DOMAIN nodes'[i]
              /\ nodes'[i].id = nodes[i].id
              /\ nodes'[i].type = nodes[i].type

C12_ImmutableIdentity == []C12_StateOk /\ [][C12_StepOk]_vars

\* the created node "2" was renamed and is still node "2" of kind concerto
C12_Witness ==
    /\ last.op = "Rename"
    /\ selectedNodeId = "2"
    /\ selectedNode # Undefined
    /\ selectedNode.data.label = "Vehicle"
    /\ selectedNode.type = "concerto"

\* the events of the end-to-end scenario, in delivery order, and the field
\* array of node "2" expected after each of them
Script ==
    << [op |-> "Drop", type |-> "Concept"],
       [op |-> "AddField"],
       [op |-> "UpdateField", index |-> 0, key |-> "name", value |-> "age"],
       [op |-> "UpdateField", index |-> 0, key |-> "type", value |-> "Integer"],
       [op |-> "RemoveField", index |-> 0],
       [op |-> "PaneClick"],
       [op |-> "AddField"] >>

ScriptFields ==
    << <<>>,
       << [type |-> "String", name |-> "newProp"] >>,
       << [type |-> "String", name |-> "age"] >>,
       << [type |-> "Integer", name |-> "age"] >>,
       <<>>,
       <<>>,
       <<>> >>

IsEvent(ev, e) ==
    /\ DOMAIN e \subseteq DOMAIN ev
    /\ \A k \in DOMAIN e : ev[k] = e[k]

\* the state after the first k events of the scenario
ScenarioState(k, nds, sel, n) ==
    /\ n = k
    /\ Len(nds) = (IF k = 0 THEN 1 ELSE 2)
    /\ nds[1] = initialNodes[1]
    /\ nds[1].data.label = "Person" /\ Len(nds[1].data.fields) = 3
    /\ k >= 1 => /\ nds[2].id = "2"
                 /\ nds[2].data.label = "New Concept"
                 /\ nds[2].data.fields = ScriptFields[k]
    /\ sel = (IF k \in 1..5 THEN "2" ELSE Null)

\* C13: from the start state (seed node "1" Person with 3 fields, nothing
\* selected) the events drop("Concept"), AddField, UpdateField(0,name,age),
\* UpdateField(0,type,Integer), RemoveField(0), pane click, AddField give node
\* "2" the field arrays [], [String newProp], [String age], [Integer age],
\* [], [], [], with "2" selected from the drop until the pane click and
\* nothing selected after it, and node "1" unchanged after every step.
C13_StepOk ==
    \A k \in 0..(Len(Script) - 1) :
        (ScenarioState(k, nodes, selectedNodeId, events) /\ IsEvent(last', Script[k + 1]))
            => ScenarioState(k + 1, nodes', selectedNodeId', events')

C13_Scenario ==
    /\ ScenarioState(0, nodes, selectedNodeId, events)
    /\ [][C13_StepOk]_vars

\* the state after the seventh event: the AddField after the pane click
C13_Witness ==
    /\ ScenarioState(7, nodes, selectedNodeId, events)
    /\ IsEvent(last, Script[7])
    /\ last.selBefore = Null
    /\ last.nodesBefore = 2

\* the edit of event record ev (a Rename or an in-range UpdateField delivered
\* while a node was selected) is visible in the data d of that node
EditVisible(ev, d) ==
    /\ (ev.op = "Rename" /\ ev.fieldsBefore >= 0) => d.label = ev.value
    /\ (ev.op = "UpdateField" /\ ev.index < ev.fieldsBefore) =>
          /\ ev.index < Len(d.fields)
          /\ ev.key \in DOMAIN d.fields[ev.index + 1]
          /\ d.fields[ev.index + 1][ev.key] = ev.value

\* the next event neither overwrites the attribute edited by ev nor moves it
KeepsEdit(ev, nxt) ==
    \/ nxt.op \in {"AddField", "Connect", "DragNode"}
    \/ nxt.op = "Rename" /\ ev.op # "Rename"
    \/ nxt.op = "UpdateField" /\ ev.op = "Rename"
    \/ nxt.op = "UpdateField" /\ ev.op = "UpdateField"
          /\ (nxt.index # ev.index \/ nxt.key # ev.key)
    \/ nxt.op = "RemoveField" /\ ev.op = "Rename"

\* C14: no edit is lost. Every mutation handled while a node is selected
\* works on the store's current value of that node: its edit is in the store
\* right after the event, it is still there after the next event (a further
\* edit of another attribute, a connect or a node drag), and two AddField
\* events in a row lengthen the field array by exactly two.
C14_StateOk ==
    (last.op \in MutationOps /\ last.fieldsBefore >= 0) =>
        /\ selectedNode # Undefined
        /\ EditVisible(last, selectedNode.data)
        /\ last.op = "AddField" => Len(SelFields) = last.fieldsBefore + 1

C14_StepOk ==
    (last.op \in MutationOps /\ last.fieldsBefore >= 0) =>
        /\ KeepsEdit(last, last') =>
              /\ selectedNode' # Undefined
              /\ EditVisible(last, selectedNode'.data)
        /\ (last.op = "AddField" /\ last'.op = "AddField") =>
              Len(SelFields') = last.fieldsBefore + 2
        /\ (last.op = "AddField" /\ last'.op \in {"Connect", "DragNode", "Rename"}) =>
              SelFields' = SelFields

C14_NoEditLost == []C14_StateOk /\ [][C14_StepOk]_vars

\* node "2" after two AddField events
C14_Witness ==
    /\ last.op = "AddField"
    /\ last.fieldsBefore = 1
    /\ selectedNodeId = "2"
    /\ selectedNode # Undefined
    /\ SelFields = << [type |-> "String", name |-> "newProp"],
                      [type |-> "String", name |-> "newProp"] >>

\* the value read at 1-based position j of a field array (an empty slot reads
\* as undefined)
ReadAt(fs, j) == IF fs[j] = Hole THEN Undefined ELSE fs[j]

\* attribute k of field value f is the same in g (present in both with equal
\* values, or absent in both)
SameAttr(f, g, k) ==
    IF k \in DOMAIN ObjOf(f)
    THEN k \in DOMAIN ObjOf(g) /\ ObjOf(g)[k] = ObjOf(f)[k]
    ELSE k \notin DOMAIN ObjOf(g)

\* C15: UpdateField(index, key, value) on the selected node, key in
\* {type, name} and 0 <= index < length, keeps the length of the field array,
\* gives the field at index the value for key and leaves its other attribute
\* as it was, and leaves the field at every other index as it was.
C15_StepOk ==
    (/\ last'.op = "UpdateField"
     /\ last'.key \in {"type", "name"}
     /\ selectedNode # Undefined
     /\ last'.index < Len(SelFields))
        => /\ selectedNode' # Undefined
           /\ Len(SelFields') = Len(SelFields)
           /\ LET i == last'.index + 1
                  g == SelFields'[i]
              IN  /\ last'.key \in DOMAIN g
                  /\ g[last'.key] = last'.value
                  /\ \A k \in {"type", "name"} \ {last'.key} :
                        SameAttr(ReadAt(SelFields, i), g, k)
           /\ \A j \in 1..Len(SelFields) :
                 j # last'.index + 1 => ReadAt(SelFields', j) = ReadAt(SelFields, j)

C15_UpdateFieldReplacesOneAttribute == [][C15_StepOk]_vars

\* the type of the seed node's second field was set to DateTime
C15_Witness ==
    /\ last.op = "UpdateField"
    /\ last.index = 1 /\ last.key = "type" /\ last.value = "DateTime"
    /\ last.fieldsBefore = 3
    /\ selectedNodeId = "1"
    /\ selectedNode # Undefined
    /\ SelFields = << [type |-> "String",   name |-> "firstName"],
                      [type |-> "DateTime", name |-> "lastName"],
                      [type |-> "Integer",  name |-> "age"] >>

\* C16: AddField on a selected node that is in the collection yields the
\* previous field array followed by exactly one new field of type "String"
\* and name "newProp"; the previous fields are an unchanged prefix, and the
\* field is appended also when a field named "newProp" is already there.
C16_StepOk ==
    (last'.op = "AddField" /\ selectedNode # Undefined) =>
        /\ selectedNode' # Undefined
        /\ Len(SelFields') = Len(SelFields) + 1
        /\ \A j \in 1..Len(SelFields) : ReadAt(SelFields', j) = ReadAt(SelFields, j)
        /\ SelFields'[Len(SelFields')] = [type |-> "String", name |-> "newProp"]

C16_AddFieldAppends == [][C16_StepOk]_vars

\* a field was appended to an array whose last field was already named newProp
C16_Witness ==
    /\ last.op = "AddField"
    /\ last.fieldsBefore >= 1
    /\ selectedNode # Undefined
    /\ Len(SelFields) = last.fieldsBefore + 1
    /\ SelFields[last.fieldsBefore] = [type |-> "String", name |-> "newProp"]
    /\ SelFields[last.fieldsBefore + 1] = [type |-> "String", name |-> "newProp"]

\* C17: updateNodeData merges at the top level of data. A Rename of the
\* selected node sets its label and leaves its fields and position as they
\* were; AddField, UpdateField and RemoveField replace its fields and leave
\* its label and position as they were.
C17_StepOk ==
    (last'.op \in MutationOps /\ selectedNode # Undefined) =>
        /\ selectedNode' # Undefined
        /\ DOMAIN selectedNode' = DOMAIN selectedNode
        /\ DOMAIN selectedNode'.data = {"label", "fields"}
        /\ selectedNode'.position = selectedNode.position
        /\ IF last'.op = "Rename"
           THEN /\ selectedNode'.data.label = last'.value
                /\ selectedNode'.data.fields = selectedNode.data.fields
           ELSE selectedNode'.data.label = selectedNode.data.label

C17_ShallowMerge == [][C17_StepOk]_vars

\* the seed node was renamed and still has its three fields and its position
C17_Witness ==
    /\ last.op = "Rename"
    /\ selectedNodeId = "1"
    /\ selectedNode # Undefined
    /\ selectedNode.data.label = "Vehicle"
    /\ selectedNode.data.fields = initialNodes[1].data.fields
    /\ selectedNode.position = initialNodes[1].position

\* C18: when UpdateField and RemoveField are delivered only with indexes of
\* field rows shown for the selected node and UpdateField type values are
\* among the offered options, every field of every node has a type and a
\* name, and its type is one of String, Integer, Boolean, DateTime, Double.
C18_FieldsWellTyped ==
    \A i \in 1..Len(nodes) :
        /\ "fields" \in DOMAIN nodes[i].data
        /\ \A j \in 1..Len(nodes[i].data.fields) :
              LET f == nodes[i].data.fields[j]
              IN  /\ DOMAIN f = {"type", "name"}
                  /\ f.type \in {"String", "Integer", "Boolean", "DateTime", "Double"}

\* the type of an added field of node "2" was set to Double
C18_Witness ==
    /\ last.op = "UpdateField"
    /\ last.key = "type" /\ last.value = "Double" /\ last.index = 0
    /\ selectedNodeId = "2"
    /\ selectedNode # Undefined
    /\ SelFields = << [type |-> "Double", name |-> "newProp"] >>

\* C19: Rename, AddField, UpdateField, RemoveField and connect never change
\* selectedNodeId; node click and pane click never change the node or the
\* edge collection; Rename, AddField, UpdateField, RemoveField and drop never
\* change the edge collection.
C19_StepOk ==
    /\ last'.op \in MutationOps \cup {"Connect"} => selectedNodeId' = selectedNodeId
    /\ last'.op \in {"NodeClick", "PaneClick"} => (nodes' = nodes /\ edges' = edges)
    /\ last'.op \in MutationOps \cup {"Drop"} => edges' = edges

C19_DisjointEffects == [][C19_StepOk]_vars

\* an edge from node "1" was added while node "2" stayed selected
C19_Witness ==
    /\ last.op = "Connect"
    /\ last.params.source = "1"
    /\ last.selBefore = "2"
    /\ selectedNodeId = "2"
    /\ Len(edges) = last.edgesBefore + 1

====
